---- MODULE Spec2Model ----
(***************************************************************************)
(* TM_ELO: player store (player_manager.py) and race / match / scheduled   *)
(* race ledger (race_manager.py).                                          *)
(*                                                                         *)
(* Ratings are Python floats inside the rating formula and integers once   *)
(* stored (round()).  Floats are modelled as fixed-point integers in units *)
(* of 1/Scale rating points; player tags are modelled as small naturals,   *)
(* generated identifiers "race_n", "match_n", "scheduled_n" as n.          *)
(*                                                                         *)
(* players is the store of the PlayerManager built inside RaceManager,     *)
(* pm_players the store of the PlayerManager the menu program and the GUI  *)
(* build for themselves, players_file the contents of players.json.       *)
(***************************************************************************)
EXTENDS Integers, Sequences, FiniteSets, TLC

VARIABLES players, pm_players, players_file, races, scheduled_races, matches, last, request, issued, applied, snapshot, before, ops

vars == <<players, pm_players, players_file, races, scheduled_races, matches, last, request, issued, applied, snapshot, before, ops>>

(***************************************************************************)
(* Bounds of the model                                                     *)
(***************************************************************************)
NumTags == 2
MaxOps == 2
MaxLen == 2
MaxPos == 1
MaxIds == 2
MatchOps == 7
IdOps == 5
RaceOps == 2
RaceAdds == 1
RaceLen == 3
RacePos == 2
FieldSize == 65
FieldOps == 3
FieldRotations == 3
FlushOps == 3
DuelOps == 2
LeagueOps == 1
RankOps == 2
PlayerOps == 4
RejectOps == 5
MenuOps == 7
GuiOps == 4

(***************************************************************************)
(* Fixed-point arithmetic standing for Python float arithmetic             *)
(***************************************************************************)
Scale == 10000
PowScale == 10000
LogBits == 14

DNF == 0

\* Rounding error allowed on a sum of two deltas, in units of 1/Scale.
DuelTolerance == 100

RECURSIVE Pow2(_)
Pow2(n) == IF n = 0 THEN 1 ELSE 2 * Pow2(n - 1)

RECURSIVE Pow10Int(_)
Pow10Int(n) == IF n = 0 THEN 1 ELSE 10 * Pow10Int(n - 1)

\* Python round() of the rational n/d (d > 0): nearest integer, ties to even.
Round(n, d) ==
    LET q == n \div d
        r == n % d
    IN IF 2 * r < d THEN q
       ELSE IF 2 * r > d THEN q + 1
       ELSE IF q % 2 = 0 THEN q ELSE q + 1

\* 10^(2^i / 400) for i = 0..8, in units of 1/PowScale.
Pow10Table == <<10058, 10116, 10233, 10471, 10965, 12023, 14454, 20893, 43652>>

MulFix(a, b) == a * (b \div PowScale) + (a * (b % PowScale)) \div PowScale

RECURSIVE Mantissa(_, _, _)
Mantissa(r, i, acc) ==
    IF i > 9 THEN acc
    ELSE Mantissa(r \div 2, i + 1, IF r % 2 = 1 THEN MulFix(acc, Pow10Table[i]) ELSE acc)

\* 10 ** (d / S) with S = 400, in units of 1/PowScale; -1 stands for a value
\* too large for the fixed-point range (ratio above 10^5).
S_default == 400

Pow10(d) ==
    LET PosPow(e) == IF e \div S_default >= 5 THEN -1
                     ELSE Mantissa(e % S_default, 1, PowScale) * Pow10Int(e \div S_default)
    IN IF d >= 0 THEN PosPow(d)
       ELSE IF PosPow(-d) = -1 THEN 0
       ELSE (PowScale * PowScale) \div PosPow(-d)

\* expected_score = 1 / (1 + 10**((O_n - P) / S)), in units of 1/Scale.
ExpectedScore(O_n, P) ==
    LET p == Pow10(O_n - P)
    IN IF p = -1 THEN 0 ELSE (Scale * PowScale) \div (PowScale + p)

(***************************************************************************)
(* player_manager.py                                                       *)
(***************************************************************************)
max_elo == 4500
min_elo == 800
population == 100000

\* floor(log2(rank)) for rank >= 1.
RECURSIVE FloorLog2(_)
FloorLog2(r) == IF r < 2 THEN 0 ELSE 1 + FloorLog2(r \div 2)

RECURSIVE LogDigits(_, _, _)
LogDigits(x, res, i) ==
    IF i = 0 THEN res
    ELSE LET sq == (x * x) \div Pow2(LogBits)
         IN IF sq >= Pow2(LogBits + 1)
            THEN LogDigits(sq \div 2, 2 * res + 1, i - 1)
            ELSE LogDigits(sq, 2 * res, i - 1)

\* math.log(rank) up to the constant factor that cancels in log_rank / log_max:
\* log2(rank) in units of 1/2^LogBits.  Defined for rank >= 1 only.
Log(rank) ==
    LET n == FloorLog2(rank)
        x == IF n <= LogBits THEN rank * Pow2(LogBits - n) ELSE rank \div Pow2(n - LogBits)
    IN LogDigits(x, n, LogBits)

Max(a, b) == IF a >= b THEN a ELSE b

\* world_rank_to_elo without the clamp max(min_elo, ...).
world_rank_to_elo_unclamped(world_rank) ==
    LET log_rank == Log(world_rank)
        log_max == Log(population)
    IN Round(max_elo * log_max - log_rank * (max_elo - min_elo), log_max)

world_rank_to_elo(world_rank) ==
    LET log_rank == Log(world_rank)
        log_max == Log(population)
    IN Max(min_elo, Round(max_elo * log_max - log_rank * (max_elo - min_elo), log_max))

MasterMin == 3000
ChampionMin == 1701

\* get_league with the lower bound of each league excluded.
get_league_exclusive(elo) ==
    IF elo > MasterMin * Scale THEN "Master"
    ELSE IF elo > ChampionMin * Scale THEN "Champion"
    ELSE "Academy"

\* get_league on a rating given in units of 1/Scale (the code passes floats
\* and integers alike).
get_league(elo) ==
    IF elo >= MasterMin * Scale THEN "Master"
    ELSE IF elo >= ChampionMin * Scale THEN "Champion"
    ELSE "Academy"

NewPlayer(world_rank) ==
    LET initial_elo == world_rank_to_elo(world_rank)
    IN [world_rank |-> world_rank,
        initial_elo |-> initial_elo,
        current_elo |-> initial_elo,
        league |-> get_league(initial_elo * Scale),
        races_played |-> 0]

(***************************************************************************)
(* race_manager.py: rating formula and race processing                     *)
(***************************************************************************)
K_scrims == 16
K_matches == 32
M_scrims == 0
M_matches == 1

\* Sum of expected_score over opponent_elos: the old_elo of every
\* participant lo..hi whose tag differs from tag.
RECURSIVE OpponentSum(_, _, _, _, _)
OpponentSum(parts, tag, P, lo, hi) ==
    IF lo > hi THEN 0
    ELSE IF lo = hi
    THEN (IF parts[lo].tag # tag THEN ExpectedScore(parts[lo].old_elo, P) ELSE 0)
    ELSE LET mid == (lo + hi) \div 2
         IN OpponentSum(parts, tag, P, lo, mid) + OpponentSum(parts, tag, P, mid + 1, hi)

OpponentCount(parts, tag) == Cardinality({j \in 1..Len(parts) : parts[j].tag # tag})

\* EloChange with the bonus M of scrimmages used for matches as well.
EloChangeNoBonus(parts, i, is_match) ==
    LET K == IF is_match THEN K_matches ELSE K_scrims
        M == M_scrims
        D == Len(parts)
        R == parts[i].position
        D_o == OpponentCount(parts, parts[i].tag)
    IN (K * (D_o + M) * (D - R) * Scale) \div (D - 1)
       - K * OpponentSum(parts, parts[i].tag, parts[i].old_elo, 1, D)

\* update_elo_rating(...) - P, i.e. K * (first_term - opponent_sum), in units
\* of 1/Scale, for participant i.  teammate_elos is always empty.
EloChange(parts, i, is_match) ==
    LET K == IF is_match THEN K_matches ELSE K_scrims
        M == IF is_match THEN M_matches ELSE M_scrims
        D == Len(parts)
        R == parts[i].position
        D_o == OpponentCount(parts, parts[i].tag)
    IN (K * (D_o + M) * (D - R) * Scale) \div (D - 1)
       - K * OpponentSum(parts, parts[i].tag, parts[i].old_elo, 1, D)

\* The participants list built by the first loop of process_race_results:
\* entries whose tag is unknown are skipped, a DNF entry gets position
\* total_participants = len(race_results).
DnfPosition(pl, race_results) == Len(race_results)

Participants(pl, race_results) ==
    LET Known(e) == e[1] \in DOMAIN pl
        known == SelectSeq(race_results, Known)
    IN [i \in 1..Len(known) |->
            [tag |-> known[i][1],
             position |-> IF known[i][2] = DNF THEN DnfPosition(pl, race_results)
                          ELSE known[i][2],
             original_position |-> known[i][2],
             old_elo |-> pl[known[i][1]].current_elo]]

PartTags(parts) == {parts[i].tag : i \in 1..Len(parts)}

\* The loop filling elo_changes: elo_changes[tag] = change, so the entry of a
\* tag is the change computed for the last participant carrying that tag.
LastIndex(parts, tag) ==
    CHOOSE k \in 1..Len(parts) :
        /\ parts[k].tag = tag
        /\ \A j \in (k + 1)..Len(parts) : parts[j].tag # tag

EloChanges(parts, is_match) ==
    [t \in PartTags(parts) |-> EloChange(parts, LastIndex(parts, t), is_match)]

NoChanges == [t \in {} |-> 0]

\* The "Apply Elo changes" loop.  Every iteration for a tag writes the same
\* rating and league (old_elo was read before the loop, change is the final
\* elo_changes entry) and adds 1 to races_played, so a tag listed n times
\* ends with races_played + n.
Occurrences(parts, tag) == Cardinality({i \in 1..Len(parts) : parts[i].tag = tag})

ApplyOne(player, old_elo, change, n) ==
    LET new_elo == old_elo * Scale + change
    IN [player EXCEPT !.current_elo = Round(new_elo, Scale),
                      !.league = get_league(new_elo),
                      !.races_played = @ + n]

ApplyChanges(pl, parts, elo_changes) ==
    [t \in DOMAIN pl |->
        IF t \in DOMAIN elo_changes
        THEN ApplyOne(pl[t], pl[t].current_elo, elo_changes[t], Occurrences(parts, t))
        ELSE pl[t]]

\* process_race_results: raised stands for the ZeroDivisionError of
\* update_elo_rating when exactly one participant is known (D - 1 = 0), which
\* leaves the player records untouched.
process_race_results(pl, race_results, is_match) ==
    LET parts == Participants(pl, race_results)
    IN IF Len(parts) = 1
       THEN [raised |-> TRUE, elo_changes |-> NoChanges, players |-> pl]
       ELSE LET elo_changes == EloChanges(parts, is_match)
            IN [raised |-> FALSE,
                elo_changes |-> elo_changes,
                players |-> ApplyChanges(pl, parts, elo_changes)]

\* The body of the revert loops of delete_race and delete_match for one
\* (player, change) item of elo_changes.
RevertOne(player, change) ==
    LET elo == Round(player.current_elo * Scale - change, Scale)
    IN [player EXCEPT !.current_elo = elo,
                      !.league = get_league(elo * Scale),
                      !.races_played = @ - 1]

\* for player, change in elo_changes.items(): if player in players: ...
RevertRace(pl, elo_changes) ==
    [t \in DOMAIN pl |->
        IF t \in DOMAIN elo_changes THEN RevertOne(pl[t], elo_changes[t]) ELSE pl[t]]

\* The outer loop of delete_match over match_data['races'] in insertion order.
RECURSIVE RevertMatchRaces(_, _, _)
RevertMatchRaces(pl, match_races, k) ==
    IF k \notin DOMAIN match_races THEN pl
    ELSE RevertMatchRaces(RevertRace(pl, match_races[k].elo_changes), match_races, k + 1)


(***************************************************************************)
(* State.  players is RaceManager.player_manager.players, players_file the *)
(* content of players.json as last written by save_players; races,        *)
(* scheduled_races and matches are the three ledgers of RaceManager.       *)
(* Names, track names, the league tag of a match and the wall-clock dates  *)
(* are never read back by an operation and are left out of the records.    *)
(*                                                                         *)
(* History variables: last is the operation just performed with its        *)
(* argument and outcome, request the results list it was given (empty for  *)
(* an operation that takes none); issued collects every identifier handed  *)
(* out per collection; applied counts, per player, the race results        *)
(* applied and not reverted; snapshot keeps, per match, the player records *)
(* at create_match and the number of add_race_to_match calls that          *)
(* succeeded since; before keeps, per race, the player records before      *)
(* add_race.                                                               *)
(***************************************************************************)
NoDate == 0

Ranks == {97, 440}
Tags == 1..NumTags
Ids == 1..MaxIds
Dates == {1}

Outcome(op, arg, ret) == [op |-> op, arg |-> arg, ret |-> ret]

EmptyLedger == [k \in {} |-> 0]

InitLedgers ==
    /\ pm_players = players
    /\ players_file = players
    /\ races = EmptyLedger
    /\ scheduled_races = EmptyLedger
    /\ matches = EmptyLedger
    /\ last = Outcome("init", 0, "ok")
    /\ request = <<>>
    /\ issued = [races |-> {}, matches |-> {}, scheduled |-> {}]
    /\ applied = [t \in DOMAIN players |-> 0]
    /\ snapshot = EmptyLedger
    /\ before = EmptyLedger
    /\ ops = 0

\* players.json as left by earlier add_player calls: tags 1..k, for any k.
InitRank(t) == IF t % 2 = 1 THEN 97 ELSE 440

LoadedPlayers(tags) == [t \in tags |-> NewPlayer(InitRank(t))]

Init ==
    /\ \E k \in 0..NumTags : players = LoadedPlayers(1..k)
    /\ InitLedgers

\* Keep the entries of snap for the live records (and for keep); an entry
\* stays clean only while no other operation touched the player records.
Kept(snap, live, keep, touched) ==
    [k \in (DOMAIN snap) \cap (live \cup {keep}) |->
        IF touched /\ k # keep THEN [snap[k] EXCEPT !.clean = FALSE] ELSE snap[k]]

Applied(elo_changes) ==
    [t \in DOMAIN applied |-> IF t \in DOMAIN elo_changes THEN applied[t] + 1 ELSE applied[t]]

Reverted(ap, elo_changes) ==
    [t \in DOMAIN ap |-> IF t \in DOMAIN elo_changes THEN ap[t] - 1 ELSE ap[t]]

RECURSIVE RevertedAll(_, _, _)
RevertedAll(ap, match_races, k) ==
    IF k \notin DOMAIN match_races THEN ap
    ELSE RevertedAll(Reverted(ap, match_races[k].elo_changes), match_races, k + 1)

Step(op, arg, ret) ==
    /\ last' = Outcome(op, arg, ret)
    /\ request' = <<>>
    /\ ops' = ops + 1

\* A step of an operation that is handed a results list.
Submit(op, arg, ret, race_results) ==
    /\ last' = Outcome(op, arg, ret)
    /\ request' = race_results
    /\ ops' = ops + 1

\* An operation that returns early or raises before it stores anything.
Unaffected ==
    /\ snapshot' = Kept(snapshot, DOMAIN matches, 0, FALSE)
    /\ before' = Kept(before, DOMAIN races, 0, FALSE)
    /\ UNCHANGED <<players, players_file, races, scheduled_races, matches, issued, applied>>

(***************************************************************************)
(* PlayerManager.add_player                                                *)
(***************************************************************************)
\* add_player with a rating computed for every rank (no error from math.log).
add_player_any_rank(player_tag, world_rank) ==
    /\ players' = (player_tag :> NewPlayer(world_rank)) @@ players
    /\ players_file' = players'
    /\ applied' = [t \in DOMAIN players' |-> IF t \in DOMAIN applied THEN applied[t] ELSE 0]
    /\ snapshot' = Kept(snapshot, DOMAIN matches, 0, TRUE)
    /\ before' = Kept(before, DOMAIN races, 0, TRUE)
    /\ Step("add_player", player_tag, "ok")
    /\ UNCHANGED <<races, scheduled_races, matches, issued>>

add_player(player_tag, world_rank) ==
    IF world_rank <= 0
    THEN \* math.log raises ValueError before anything is stored
         Step("add_player", player_tag, "raised") /\ Unaffected
    ELSE /\ players' = (player_tag :> NewPlayer(world_rank)) @@ players
         /\ players_file' = players'
         /\ applied' = [t \in DOMAIN players' |-> IF t \in DOMAIN applied THEN applied[t] ELSE 0]
         /\ snapshot' = Kept(snapshot, DOMAIN matches, 0, TRUE)
         /\ before' = Kept(before, DOMAIN races, 0, TRUE)
         /\ Step("add_player", player_tag, "ok")
         /\ UNCHANGED <<races, scheduled_races, matches, issued>>

(***************************************************************************)
(* RaceManager.add_race and delete_race                                    *)
(***************************************************************************)
IsDnf(e) == e[2] = DNF
IsRanked(e) == e[2] # DNF

\* race_results.sort(key=lambda x: x[1]) is a stable sort; comparing an int
\* position with the string 'DNF' raises TypeError.
SortRaises(race_results) ==
    /\ \E i \in 1..Len(race_results) : IsDnf(race_results[i])
    /\ \E i \in 1..Len(race_results) : IsRanked(race_results[i])

RECURSIVE Insert(_, _)
Insert(sorted, e) ==
    IF sorted = <<>> THEN <<e>>
    ELSE IF sorted[Len(sorted)][2] <= e[2] THEN Append(sorted, e)
    ELSE Append(Insert(SubSeq(sorted, 1, Len(sorted) - 1), e), sorted[Len(sorted)])

RECURSIVE SortByPosition(_)
SortByPosition(race_results) ==
    IF race_results = <<>> THEN <<>>
    ELSE Insert(SortByPosition(SubSeq(race_results, 1, Len(race_results) - 1)),
                race_results[Len(race_results)])

NextId(ledger) == Cardinality(DOMAIN ledger) + 1

RaceRecord(race_results, elo_changes, is_match, scheduled_date) ==
    [results |-> race_results,
     elo_changes |-> elo_changes,
     is_match |-> is_match,
     scheduled_date |-> scheduled_date]

Remembered(pl) == [players |-> pl, clean |-> TRUE]

add_race(race_results, is_match) ==
    LET race_id == NextId(races)
        sorted == SortByPosition(race_results)
        res == process_race_results(players, sorted, is_match)
    IN IF SortRaises(race_results) \/ res.raised
       THEN Submit("add_race", race_id, "raised", race_results) /\ Unaffected
       ELSE /\ players' = res.players
            /\ players_file' = players'
            /\ races' = (race_id :> RaceRecord(sorted, res.elo_changes, is_match, NoDate)) @@ races
            /\ issued' = [issued EXCEPT !.races = @ \cup {race_id}]
            /\ applied' = Applied(res.elo_changes)
            /\ snapshot' = Kept(snapshot, DOMAIN matches, 0, TRUE)
            /\ before' = (race_id :> Remembered(players)) @@ Kept(before, DOMAIN races, 0, TRUE)
            /\ Submit("add_race", race_id, "ok", race_results)
            /\ UNCHANGED <<scheduled_races, matches>>

Remove(ledger, id) == [k \in (DOMAIN ledger) \ {id} |-> ledger[k]]

delete_race(race_id) ==
    IF race_id \notin DOMAIN races
    THEN Step("delete_race", race_id, "false") /\ Unaffected
    ELSE /\ players' = RevertRace(players, races[race_id].elo_changes)
         /\ players_file' = players'
         /\ races' = Remove(races, race_id)
         /\ applied' = Reverted(applied, races[race_id].elo_changes)
         /\ snapshot' = Kept(snapshot, DOMAIN matches, 0, TRUE)
         /\ before' = Kept(before, DOMAIN races', race_id, TRUE)
         /\ Step("delete_race", race_id, "ok")
         /\ UNCHANGED <<scheduled_races, matches, issued>>

(***************************************************************************)
(* RaceManager.create_match, add_race_to_match, delete_match               *)
(***************************************************************************)
MatchRaces == 5
ScrimmageRaces == 3

NumRaces(is_match) == IF is_match THEN MatchRaces ELSE ScrimmageRaces

create_match(participants, is_match) ==
    LET match_id == NextId(matches)
    IN /\ matches' = (match_id :> [participants |-> participants,
                                   is_match |-> is_match,
                                   num_races |-> NumRaces(is_match),
                                   status |-> "in_progress",
                                   races |-> EmptyLedger,
                                   current_race |-> 1]) @@ matches
       /\ issued' = [issued EXCEPT !.matches = @ \cup {match_id}]
       /\ snapshot' = (match_id :> [players |-> players,
                                    participants |-> participants,
                                    clean |-> TRUE,
                                    submitted |-> 0])
                      @@ Kept(snapshot, DOMAIN matches, 0, FALSE)
       /\ before' = Kept(before, DOMAIN races, 0, FALSE)
       /\ Step("create_match", match_id, "ok")
       /\ UNCHANGED <<players, players_file, races, scheduled_races, applied>>

\* A match that takes one race more than its target before it rejects.
MatchCompletedPastOne(match_data) == match_data.current_race > match_data.num_races + 1

MatchCompleted(match_data) == match_data.current_race > match_data.num_races

CompletesMatchLate(current_race, num_races) == current_race > num_races

CompletesMatchEarly(current_race, num_races) == current_race + 1 >= num_races

CompletesMatch(current_race, num_races) == current_race >= num_races

\* add_race_to_match without the advance of the race pointer: the next
\* submission is stored under the key of this one.
add_race_to_match_same_key(match_id, race_results) ==
    IF match_id \notin DOMAIN matches
    THEN Submit("add_race_to_match", match_id, "false", race_results) /\ Unaffected
    ELSE LET match_data == matches[match_id]
             current_race == match_data.current_race
             res == process_race_results(players, race_results, match_data.is_match)
             kept == Kept(snapshot, DOMAIN matches, match_id, TRUE)
         IN IF MatchCompleted(match_data)
            THEN Submit("add_race_to_match", match_id, "false", race_results) /\ Unaffected
            ELSE IF res.raised
            THEN Submit("add_race_to_match", match_id, "raised", race_results) /\ Unaffected
            ELSE /\ players' = res.players
                 /\ players_file' = players'
                 /\ matches' = [matches EXCEPT ![match_id] =
                        [@ EXCEPT !.races = (current_race :> [results |-> race_results,
                                                              elo_changes |-> res.elo_changes]) @@ @,
                                  !.status = IF CompletesMatch(current_race, match_data.num_races)
                                             THEN "completed" ELSE @]]
                 /\ applied' = Applied(res.elo_changes)
                 /\ snapshot' = [kept EXCEPT ![match_id].submitted = @ + 1]
                 /\ before' = Kept(before, DOMAIN races, 0, TRUE)
                 /\ Submit("add_race_to_match", match_id, "ok", race_results)
                 /\ UNCHANGED <<races, scheduled_races, issued>>

add_race_to_match(match_id, race_results) ==
    IF match_id \notin DOMAIN matches
    THEN Submit("add_race_to_match", match_id, "false", race_results) /\ Unaffected
    ELSE LET match_data == matches[match_id]
             current_race == match_data.current_race
             res == process_race_results(players, race_results, match_data.is_match)
             kept == Kept(snapshot, DOMAIN matches, match_id, TRUE)
         IN IF MatchCompleted(match_data)
            THEN Submit("add_race_to_match", match_id, "false", race_results) /\ Unaffected
            ELSE IF res.raised
            THEN Submit("add_race_to_match", match_id, "raised", race_results) /\ Unaffected
            ELSE /\ players' = res.players
                 /\ players_file' = players'
                 /\ matches' = [matches EXCEPT ![match_id] =
                        [@ EXCEPT !.races = (current_race :> [results |-> race_results,
                                                              elo_changes |-> res.elo_changes]) @@ @,
                                  !.current_race = @ + 1,
                                  !.status = IF CompletesMatch(current_race, match_data.num_races)
                                             THEN "completed" ELSE @]]
                 /\ applied' = Applied(res.elo_changes)
                 /\ snapshot' = [kept EXCEPT ![match_id].submitted = @ + 1]
                 /\ before' = Kept(before, DOMAIN races, 0, TRUE)
                 /\ Submit("add_race_to_match", match_id, "ok", race_results)
                 /\ UNCHANGED <<races, scheduled_races, issued>>

delete_match(match_id) ==
    IF match_id \notin DOMAIN matches
    THEN Step("delete_match", match_id, "false") /\ Unaffected
    ELSE /\ players' = RevertMatchRaces(players, matches[match_id].races, 1)
         /\ players_file' = players'
         /\ matches' = Remove(matches, match_id)
         /\ applied' = RevertedAll(applied, matches[match_id].races, 1)
         /\ snapshot' = Kept(snapshot, DOMAIN matches', match_id, TRUE)
         /\ before' = Kept(before, DOMAIN races, 0, TRUE)
         /\ Step("delete_match", match_id, "ok")
         /\ UNCHANGED <<races, scheduled_races, issued>>

(***************************************************************************)
(* RaceManager.create_scheduled_race, complete_scheduled_race              *)
(***************************************************************************)
create_scheduled_race(participants, is_match, scheduled_date) ==
    LET race_id == NextId(scheduled_races)
    IN /\ scheduled_races' = (race_id :> [participants |-> participants,
                                          is_match |-> is_match,
                                          scheduled_date |-> scheduled_date,
                                          status |-> "scheduled"]) @@ scheduled_races
       /\ issued' = [issued EXCEPT !.scheduled = @ \cup {race_id}]
       /\ snapshot' = Kept(snapshot, DOMAIN matches, 0, FALSE)
       /\ before' = Kept(before, DOMAIN races, 0, FALSE)
       /\ Step("create_scheduled_race", race_id, "ok")
       /\ UNCHANGED <<players, players_file, races, matches, applied>>

complete_scheduled_race(race_id, race_results, is_match_arg) ==
    IF race_id \notin DOMAIN scheduled_races
    THEN Submit("complete_scheduled_race", race_id, "false", race_results) /\ Unaffected
    ELSE LET scheduled_race == scheduled_races[race_id]
             is_match == scheduled_race.is_match
             res == process_race_results(players, race_results, is_match)
             completed_race_id == NextId(races)
         IN IF res.raised
            THEN Submit("complete_scheduled_race", race_id, "raised", race_results) /\ Unaffected
            ELSE /\ players' = res.players
                 /\ players_file' = players'
                 /\ races' = (completed_race_id :>
                                RaceRecord(race_results, res.elo_changes, is_match,
                                           scheduled_race.scheduled_date)) @@ races
                 /\ scheduled_races' = Remove(scheduled_races, race_id)
                 /\ issued' = [issued EXCEPT !.races = @ \cup {completed_race_id}]
                 /\ applied' = Applied(res.elo_changes)
                 /\ snapshot' = Kept(snapshot, DOMAIN matches, 0, TRUE)
                 /\ before' = (completed_race_id :> Remembered(players))
                              @@ Kept(before, DOMAIN races, 0, TRUE)
                 /\ Submit("complete_scheduled_race", completed_race_id, "ok", race_results)
                 /\ UNCHANGED matches

(***************************************************************************)
(* Inputs and specifications                                               *)
(***************************************************************************)
\* Result lists of length 0..n over the given tags and positions.
RECURSIVE ResultLists(_, _, _)
ResultLists(tags, positions, n) ==
    IF n = 0 THEN {<<>>}
    ELSE LET shorter == ResultLists(tags, positions, n - 1)
         IN shorter \cup {Append(r, <<t, p>>) : r \in shorter, t \in tags, p \in positions}

Positions == (1..MaxPos) \cup {DNF}
Results == ResultLists(Tags, Positions, MaxLen)
ParticipantLists == {<<>>, <<1>>, <<1, 2>>}

AddPlayer == \E t \in Tags, r \in Ranks \cup {0} : add_player(t, r)
AddRace == \E rr \in Results, m \in BOOLEAN : add_race(rr, m)
DeleteRace == \E id \in Ids : delete_race(id)
CreateMatch == \E ps \in ParticipantLists, m \in BOOLEAN : create_match(ps, m)
AddRaceToMatch == \E id \in Ids, rr \in Results : add_race_to_match(id, rr)
DeleteMatch == \E id \in Ids : delete_match(id)
CreateScheduledRace == \E ps \in ParticipantLists, m \in BOOLEAN, d \in Dates :
                            create_scheduled_race(ps, m, d)
CompleteScheduledRace == \E id \in Ids, rr \in Results, m \in BOOLEAN :
                            complete_scheduled_race(id, rr, m)

Next ==
    /\ ops < MaxOps
    /\ UNCHANGED pm_players
    /\ \/ AddPlayer
       \/ AddRace
       \/ DeleteRace
       \/ CreateMatch
       \/ AddRaceToMatch
       \/ DeleteMatch
       \/ CreateScheduledRace
       \/ CompleteScheduledRace

Spec == Init /\ [][Next]_vars

(***************************************************************************)
(* SpecMatch: the match lifecycle alone, long enough to complete a match   *)
(* and to submit one race too many.                                        *)
(***************************************************************************)
MatchResults == {<<<<1, 1>>, <<2, 2>>>>, <<<<2, 1>>, <<1, DNF>>>>}

InitMatch ==
    /\ players = LoadedPlayers(1..2)
    /\ InitLedgers

MatchCreate == \E m \in BOOLEAN : create_match(<<1, 2>>, m)
MatchAddRace == \E id \in Ids, rr \in MatchResults : add_race_to_match(id, rr)
MatchDelete == \E id \in Ids : delete_match(id)

NextMatch ==
    /\ ops < MatchOps
    /\ UNCHANGED pm_players
    /\ \/ MatchCreate
       \/ MatchAddRace
       \/ MatchDelete

SpecMatch == InitMatch /\ [][NextMatch]_vars

(***************************************************************************)
(* SpecIds: creations and deletions in the three ledgers, with one fixed   *)
(* result list, deep enough to create again after a deletion.              *)
(***************************************************************************)
IdResults == {<<<<1, 1>>, <<2, 2>>>>}

IdAddRace == \E rr \in IdResults : add_race(rr, TRUE)
IdDeleteRace == \E id \in Ids : delete_race(id)
IdCreateMatch == create_match(<<1, 2>>, FALSE)
IdDeleteMatch == \E id \in Ids : delete_match(id)
IdSchedule == \E d \in Dates : create_scheduled_race(<<1, 2>>, TRUE, d)
IdComplete == \E id \in Ids, rr \in IdResults : complete_scheduled_race(id, rr, TRUE)

NextIds ==
    /\ ops < IdOps
    /\ UNCHANGED pm_players
    /\ \/ IdAddRace
       \/ IdDeleteRace
       \/ IdCreateMatch
       \/ IdDeleteMatch
       \/ IdSchedule
       \/ IdComplete

SpecIds == InitMatch /\ [][NextIds]_vars

(***************************************************************************)
(* SpecRace: one race processed from every result list of up to RaceLen    *)
(* entries over two stored players and one unknown tag, then reverted.     *)
(* scheduled_races.json holds one scheduled race of either type.           *)
(***************************************************************************)
RaceTags == 1..3
RacePositions == (1..RacePos) \cup {DNF}
RaceResults == ResultLists(RaceTags, RacePositions, RaceLen)

InitRace ==
    /\ players = LoadedPlayers(1..2)
    /\ pm_players = players
    /\ players_file = players
    /\ races = EmptyLedger
    /\ \E m \in BOOLEAN :
          scheduled_races = (1 :> [participants |-> <<1, 2>>,
                                   is_match |-> m,
                                   scheduled_date |-> 1,
                                   status |-> "scheduled"])
    /\ matches = EmptyLedger
    /\ last = Outcome("init", 0, "ok")
    /\ request = <<>>
    /\ issued = [races |-> {}, matches |-> {}, scheduled |-> {1}]
    /\ applied = [t \in DOMAIN players |-> 0]
    /\ snapshot = EmptyLedger
    /\ before = EmptyLedger
    /\ ops = 0

RaceAdd == ops < RaceAdds /\ \E rr \in RaceResults, m \in BOOLEAN : add_race(rr, m)
RaceComplete == ops < RaceAdds /\ \E rr \in RaceResults : complete_scheduled_race(1, rr, TRUE)
RaceDelete == \E id \in Ids : delete_race(id)

NextRace ==
    /\ ops < RaceOps
    /\ UNCHANGED pm_players
    /\ \/ RaceAdd
       \/ RaceComplete
       \/ RaceDelete

SpecRace == InitRace /\ [][NextRace]_vars

(***************************************************************************)
(* SpecField: one match among FieldSize players of equal rating; the       *)
(* results are the rotations of the finishing order 1..FieldSize.          *)
(***************************************************************************)
FieldRanks == {2, 97}
FieldTags == 1..FieldSize
FieldList == [i \in 1..FieldSize |-> i]
FieldResult(k) == [i \in 1..FieldSize |-> <<((i + k - 1) % FieldSize) + 1, i>>]

InitField ==
    /\ \E r \in FieldRanks : players = [t \in FieldTags |-> NewPlayer(r)]
    /\ InitLedgers

FieldCreate == \E m \in BOOLEAN : create_match(FieldList, m)
FieldAddRace == \E k \in 0..(FieldRotations - 1) : add_race_to_match(1, FieldResult(k))
FieldDelete == delete_match(1)

NextField ==
    /\ ops < FieldOps
    /\ UNCHANGED pm_players
    /\ \/ FieldCreate
       \/ FieldAddRace
       \/ FieldDelete

SpecField == InitField /\ [][NextField]_vars

(***************************************************************************)
(* Persistence failures.  Every save_* opens its file and dumps the        *)
(* collection (json.dump); an I/O error there is an exception that leaves  *)
(* the operation at that line, with every assignment made before it kept.  *)
(* stage names the save that fails: "players" is save_players inside       *)
(* process_race_results, "ledger" the save of the operation itself.        *)
(***************************************************************************)
FlushStages == {"players", "ledger"}

add_player_flush_fails(player_tag, world_rank) ==
    /\ world_rank > 0
    /\ players' = (player_tag :> NewPlayer(world_rank)) @@ players
    /\ applied' = [t \in DOMAIN players' |-> IF t \in DOMAIN applied THEN applied[t] ELSE 0]
    /\ snapshot' = Kept(snapshot, DOMAIN matches, 0, TRUE)
    /\ before' = Kept(before, DOMAIN races, 0, TRUE)
    /\ Step("add_player", player_tag, "io_error")
    /\ UNCHANGED <<players_file, races, scheduled_races, matches, issued>>

add_race_flush_fails(race_results, is_match, stage) ==
    LET race_id == NextId(races)
        sorted == SortByPosition(race_results)
        res == process_race_results(players, sorted, is_match)
    IN /\ ~SortRaises(race_results)
       /\ ~res.raised
       /\ players' = res.players
       /\ applied' = Applied(res.elo_changes)
       /\ snapshot' = Kept(snapshot, DOMAIN matches, 0, TRUE)
       /\ before' = Kept(before, DOMAIN races, 0, TRUE)
       /\ IF stage = "players"
          THEN UNCHANGED <<players_file, races, issued>>
          ELSE /\ players_file' = players'
               /\ races' = (race_id :> RaceRecord(sorted, res.elo_changes, is_match, NoDate)) @@ races
               /\ issued' = [issued EXCEPT !.races = @ \cup {race_id}]
       /\ Submit("add_race", race_id, "io_error", race_results)
       /\ UNCHANGED <<scheduled_races, matches>>

delete_race_flush_fails(race_id) ==
    /\ race_id \in DOMAIN races
    /\ players' = RevertRace(players, races[race_id].elo_changes)
    /\ races' = Remove(races, race_id)
    /\ applied' = Reverted(applied, races[race_id].elo_changes)
    /\ snapshot' = Kept(snapshot, DOMAIN matches, 0, TRUE)
    /\ before' = Kept(before, DOMAIN races', 0, TRUE)
    /\ Step("delete_race", race_id, "io_error")
    /\ UNCHANGED <<players_file, scheduled_races, matches, issued>>

add_race_to_match_flush_fails(match_id, race_results, stage) ==
    /\ match_id \in DOMAIN matches
    /\ ~MatchCompleted(matches[match_id])
    /\ LET match_data == matches[match_id]
           current_race == match_data.current_race
           res == process_race_results(players, race_results, match_data.is_match)
       IN /\ ~res.raised
          /\ players' = res.players
          /\ applied' = Applied(res.elo_changes)
          /\ IF stage = "players"
             THEN UNCHANGED <<players_file, matches>>
             ELSE /\ players_file' = players'
                  /\ matches' = [matches EXCEPT ![match_id] =
                     [@ EXCEPT !.races = (current_race :> [results |-> race_results,
                                                           elo_changes |-> res.elo_changes]) @@ @,
                               !.current_race = @ + 1,
                               !.status = IF CompletesMatch(current_race, match_data.num_races)
                                          THEN "completed" ELSE @]]
    /\ snapshot' = Kept(snapshot, DOMAIN matches, 0, TRUE)
    /\ before' = Kept(before, DOMAIN races, 0, TRUE)
    /\ Submit("add_race_to_match", match_id, "io_error", race_results)
    /\ UNCHANGED <<races, scheduled_races, issued>>

delete_match_flush_fails(match_id) ==
    /\ match_id \in DOMAIN matches
    /\ players' = RevertMatchRaces(players, matches[match_id].races, 1)
    /\ matches' = Remove(matches, match_id)
    /\ applied' = RevertedAll(applied, matches[match_id].races, 1)
    /\ snapshot' = Kept(snapshot, DOMAIN matches', 0, TRUE)
    /\ before' = Kept(before, DOMAIN races, 0, TRUE)
    /\ Step("delete_match", match_id, "io_error")
    /\ UNCHANGED <<players_file, races, scheduled_races, issued>>

complete_scheduled_race_flush_fails(race_id, race_results, stage) ==
    /\ race_id \in DOMAIN scheduled_races
    /\ LET scheduled_race == scheduled_races[race_id]
           is_match == scheduled_race.is_match
           res == process_race_results(players, race_results, is_match)
           completed_race_id == NextId(races)
       IN /\ ~res.raised
          /\ players' = res.players
          /\ applied' = Applied(res.elo_changes)
          /\ IF stage = "players"
             THEN UNCHANGED <<players_file, races, scheduled_races, issued>>
             ELSE /\ players_file' = players'
                  /\ races' = (completed_race_id :>
                                 RaceRecord(race_results, res.elo_changes, is_match,
                                            scheduled_race.scheduled_date)) @@ races
                  /\ scheduled_races' = Remove(scheduled_races, race_id)
                  /\ issued' = [issued EXCEPT !.races = @ \cup {completed_race_id}]
    /\ snapshot' = Kept(snapshot, DOMAIN matches, 0, TRUE)
    /\ before' = Kept(before, DOMAIN races, 0, TRUE)
    /\ Submit("complete_scheduled_race", race_id, "io_error", race_results)
    /\ UNCHANGED matches

(***************************************************************************)
(* SpecFlush: the operations over two stored players, each save free to    *)
(* fail.                                                                   *)
(***************************************************************************)
FlushResults == {<<>>, <<<<1, 1>>, <<2, 2>>>>}

\* add_player of a tag that is not stored yet.
FlushAddPlayer == \E r \in Ranks : add_player(NumTags + 1, r)
FlushAddRace == \E rr \in FlushResults : add_race(rr, TRUE)
FlushDeleteRace == \E id \in Ids : delete_race(id)
FlushCreateMatch == create_match(<<1, 2>>, FALSE)
FlushAddRaceToMatch == \E id \in Ids, rr \in FlushResults : add_race_to_match(id, rr)
FlushDeleteMatch == \E id \in Ids : delete_match(id)
FlushSchedule == \E d \in Dates : create_scheduled_race(<<1, 2>>, TRUE, d)
FlushComplete == \E id \in Ids, rr \in FlushResults : complete_scheduled_race(id, rr, TRUE)
AddPlayerFlushFails == \E r \in Ranks : add_player_flush_fails(NumTags + 1, r)
AddRaceFlushFails == \E rr \in FlushResults, st \in FlushStages : add_race_flush_fails(rr, TRUE, st)
DeleteRaceFlushFails == \E id \in Ids : delete_race_flush_fails(id)
AddRaceToMatchFlushFails == \E id \in Ids, rr \in FlushResults, st \in FlushStages :
                                add_race_to_match_flush_fails(id, rr, st)
DeleteMatchFlushFails == \E id \in Ids : delete_match_flush_fails(id)
CompleteFlushFails == \E id \in Ids, rr \in FlushResults, st \in FlushStages :
                          complete_scheduled_race_flush_fails(id, rr, st)

NextFlush ==
    /\ ops < FlushOps
    /\ UNCHANGED pm_players
    /\ \/ FlushAddPlayer
       \/ FlushAddRace
       \/ FlushDeleteRace
       \/ FlushCreateMatch
       \/ FlushAddRaceToMatch
       \/ FlushDeleteMatch
       \/ FlushSchedule
       \/ FlushComplete
       \/ AddPlayerFlushFails
       \/ AddRaceFlushFails
       \/ DeleteRaceFlushFails
       \/ AddRaceToMatchFlushFails
       \/ DeleteMatchFlushFails
       \/ CompleteFlushFails

SpecFlush == InitMatch /\ [][NextFlush]_vars

(***************************************************************************)
(* SpecDuel: head-to-head races between two stored players whose ratings   *)
(* are drawn from the initial ratings 2500, 2000, 1800 and 1500.           *)
(***************************************************************************)
DuelRanks == {504, 2387, 4447, 11308}
DuelResults == {<<<<1, 1>>, <<2, 2>>>>, <<<<2, 1>>, <<1, 2>>>>}

InitDuel ==
    /\ \E r1, r2 \in DuelRanks : players = (1 :> NewPlayer(r1)) @@ (2 :> NewPlayer(r2))
    /\ InitLedgers

DuelRace == \E rr \in DuelResults, m \in BOOLEAN : add_race(rr, m)

NextDuel ==
    /\ ops < DuelOps
    /\ UNCHANGED pm_players
    /\ DuelRace

SpecDuel == InitDuel /\ [][NextDuel]_vars

(***************************************************************************)
(* SpecLeague: PlayerManager.get_league called on ratings around the       *)
(* league boundaries, whole and fractional (in units of 1/Scale).          *)
(***************************************************************************)
LeagueFractions == {0, 1, 5000, 9999}
LeagueRatings ==
    {r * Scale + f : r \in (1690..1710) \cup (2990..3010) \cup {800, 4500},
                     f \in LeagueFractions}

GetLeague == \E elo \in LeagueRatings : Step("get_league", elo, get_league(elo)) /\ Unaffected

NextLeague ==
    /\ ops < LeagueOps
    /\ UNCHANGED pm_players
    /\ GetLeague

SpecLeague == InitMatch /\ [][NextLeague]_vars

(***************************************************************************)
(* SpecRank: PlayerManager.world_rank_to_elo called on positive ranks, two *)
(* calls in a row.                                                         *)
(***************************************************************************)
RankInputs ==
    (1..60) \cup {97, 440, 504, 1000, 2387, 4447, 11308, 50000, 99999, 100000, 100001,
                  200000, 1000000}

WorldRankToElo ==
    \E world_rank \in RankInputs :
        Step("world_rank_to_elo", world_rank, world_rank_to_elo(world_rank)) /\ Unaffected

NextRank ==
    /\ ops < RankOps
    /\ UNCHANGED pm_players
    /\ WorldRankToElo

SpecRank == InitMatch /\ [][NextRank]_vars

(***************************************************************************)
(* SpecPlayers: add_player alone, with positive, zero and negative ranks.  *)
(***************************************************************************)
PlayerRanks == Ranks \cup {2, 0, -1}

PlayersAdd == \E t \in Tags, r \in PlayerRanks : add_player(t, r)

NextPlayers ==
    /\ ops < PlayerOps
    /\ UNCHANGED pm_players
    /\ PlayersAdd

SpecPlayers == Init /\ [][NextPlayers]_vars

(***************************************************************************)
(* SpecReject: every operation that can return early on an identifier,     *)
(* over one pair of players and one result list, long enough to complete   *)
(* a scrimmage and to submit one more race to it.                          *)
(***************************************************************************)
RejectResults == {<<<<1, 1>>, <<2, 2>>>>}

RejectAddRace == \E rr \in RejectResults : add_race(rr, FALSE)
RejectDeleteRace == \E id \in Ids : delete_race(id)
RejectCreateMatch == create_match(<<1, 2>>, FALSE)
RejectAddRaceToMatch == \E id \in Ids, rr \in RejectResults : add_race_to_match(id, rr)
RejectDeleteMatch == \E id \in Ids : delete_match(id)
RejectSchedule == create_scheduled_race(<<1, 2>>, FALSE, 1)
RejectComplete == \E id \in Ids, rr \in RejectResults : complete_scheduled_race(id, rr, FALSE)

NextReject ==
    /\ ops < RejectOps
    /\ UNCHANGED pm_players
    /\ \/ RejectAddRace
       \/ RejectDeleteRace
       \/ RejectCreateMatch
       \/ RejectAddRaceToMatch
       \/ RejectDeleteMatch
       \/ RejectSchedule
       \/ RejectComplete

SpecReject == InitMatch /\ [][NextReject]_vars

(***************************************************************************)
(* Two player stores.  The menu program of player_manager.py keeps its     *)
(* PlayerManager for the whole run and builds a new RaceManager, loading   *)
(* players.json again, each time "Manage races" is chosen; the GUI builds  *)
(* a PlayerManager and a RaceManager once.  add_player goes to the         *)
(* program's own PlayerManager, every race operation to the store inside   *)
(* RaceManager; each save_players writes the whole store of its caller.    *)
(***************************************************************************)
NewTag == NumTags + 1

pm_add_player(player_tag, world_rank) ==
    IF world_rank <= 0
    THEN Step("add_player", player_tag, "raised") /\ Unaffected /\ UNCHANGED pm_players
    ELSE /\ pm_players' = (player_tag :> NewPlayer(world_rank)) @@ pm_players
         /\ players_file' = pm_players'
         /\ applied' = [t \in DOMAIN applied \cup {player_tag} |->
                           IF t \in DOMAIN applied THEN applied[t] ELSE 0]
         /\ snapshot' = Kept(snapshot, DOMAIN matches, 0, TRUE)
         /\ before' = Kept(before, DOMAIN races, 0, TRUE)
         /\ Step("add_player", player_tag, "ok")
         /\ UNCHANGED <<players, races, scheduled_races, matches, issued>>

\* rm = RaceManager(): a new PlayerManager loads players.json; the ledgers
\* are loaded from their files, which hold what the last operation saved.
race_main ==
    /\ players' = players_file
    /\ snapshot' = Kept(snapshot, DOMAIN matches, 0, TRUE)
    /\ before' = Kept(before, DOMAIN races, 0, TRUE)
    /\ Step("race_main", 0, "ok")
    /\ UNCHANGED <<pm_players, players_file, races, scheduled_races, matches, issued, applied>>

\* Choice 9 of the race menu: back to the menu of player_manager.py.
race_main_exit ==
    /\ Step("exit", 0, "ok")
    /\ Unaffected
    /\ UNCHANGED pm_players

(***************************************************************************)
(* SpecMenu: player_manager.main, with the race menu it opens.             *)
(***************************************************************************)
AtMainMenu == last.op \in {"init", "add_player", "exit"}

MenuResults == {<<<<1, 1>>, <<2, 2>>>>}

MenuAddPlayer == AtMainMenu /\ \E r \in Ranks : pm_add_player(NewTag, r)
MenuManageRaces == AtMainMenu /\ race_main
MenuCreateMatch ==
    /\ ~AtMainMenu
    /\ {1, 2} \subseteq DOMAIN players
    /\ create_match(<<1, 2>>, FALSE)
    /\ UNCHANGED pm_players
MenuAddRaceToMatch ==
    /\ ~AtMainMenu
    /\ \E id \in DOMAIN matches, rr \in MenuResults :
          /\ matches[id].status # "completed"
          /\ add_race_to_match(id, rr)
    /\ UNCHANGED pm_players
MenuDeleteMatch ==
    /\ ~AtMainMenu
    /\ \E id \in DOMAIN matches : delete_match(id)
    /\ UNCHANGED pm_players
MenuExit == ~AtMainMenu /\ race_main_exit

NextMenu ==
    /\ ops < MenuOps
    /\ \/ MenuAddPlayer
       \/ MenuManageRaces
       \/ MenuCreateMatch
       \/ MenuAddRaceToMatch
       \/ MenuDeleteMatch
       \/ MenuExit

SpecMenu == InitMatch /\ [][NextMenu]_vars

(***************************************************************************)
(* SpecGui: the GUI, with the two stores it builds at start.  The          *)
(* participants of a match are chosen from one league of the GUI's own     *)
(* store; the race dialog gives row i the position i or DNF.               *)
(***************************************************************************)
GuiResults == {<<<<1, 1>>, <<2, 2>>>>, <<<<2, 1>>, <<1, 2>>>>, <<<<1, 1>>, <<2, DNF>>>>}

InitGui ==
    /\ players = [t \in 1..2 |-> NewPlayer(InitRank(1))]
    /\ InitLedgers

GuiAddPlayer == \E r \in Ranks : pm_add_player(NewTag, r)
GuiCreateMatch ==
    /\ {1, 2} \subseteq DOMAIN pm_players
    /\ get_league(pm_players[1].current_elo * Scale) = get_league(pm_players[2].current_elo * Scale)
    /\ \E m \in BOOLEAN : create_match(<<1, 2>>, m)
    /\ UNCHANGED pm_players
GuiAddRaceToMatch ==
    /\ \E id \in DOMAIN matches, rr \in GuiResults :
          /\ matches[id].status # "completed"
          /\ add_race_to_match(id, rr)
    /\ UNCHANGED pm_players
GuiDeleteMatch ==
    /\ \E id \in DOMAIN matches : delete_match(id)
    /\ UNCHANGED pm_players

NextGui ==
    /\ ops < GuiOps
    /\ \/ GuiAddPlayer
       \/ GuiCreateMatch
       \/ GuiAddRaceToMatch
       \/ GuiDeleteMatch

SpecGui == InitGui /\ [][NextGui]_vars

(***************************************************************************)
(* Claims                                                                  *)
(***************************************************************************)

\* The status of every stored match against the number of sub-races submitted
\* to it.
C1_Submitted ==
    \A m \in DOMAIN matches :
        LET target == IF matches[m].is_match THEN 5 ELSE 3
        IN /\ snapshot[m].submitted <= target
           /\ matches[m].status = "completed" <=> snapshot[m].submitted = target

\* A submission to a completed match returns False and stores nothing.
C1_Rejects ==
    (/\ ops' = ops + 1
     /\ last'.op = "add_race_to_match"
     /\ last'.arg \in DOMAIN matches
     /\ matches[last'.arg].status = "completed")
    => (last'.ret = "false" /\ matches' = matches /\ players' = players)

\* C1: a match (is_match) is completed exactly when its 5th add_race_to_match
\* has succeeded, a scrimmage exactly when its 3rd has; add_race_to_match on a
\* completed match returns False and stores nothing.
C1_MatchCompletion == [](C1_Submitted) /\ [][C1_Rejects]_vars

C1_Witness ==
    \E m \in DOMAIN matches :
        /\ matches[m].is_match
        /\ matches[m].status = "completed"
        /\ snapshot[m].submitted = 5
        /\ last = Outcome("add_race_to_match", m, "false")

\* C2: for every stored match, status is 'completed' if and only if
\* current_race > num_races, and 'in_progress' otherwise.
C2_StatusIffPastTarget ==
    \A m \in DOMAIN matches :
        IF matches[m].current_race > matches[m].num_races
        THEN matches[m].status = "completed"
        ELSE matches[m].status = "in_progress"

C2_Witness ==
    \E m, n \in DOMAIN matches :
        /\ matches[m].status = "completed"
        /\ matches[m].current_race = matches[m].num_races + 1
        /\ matches[n].status = "in_progress"
        /\ matches[n].current_race = matches[n].num_races

\* C3: round trip of a single race: add_race followed at once by delete_race
\* of that race leaves every player's current_elo and races_played as they
\* were before the race.
C3_RaceRoundTrip ==
    (/\ last.op = "delete_race"
     /\ last.ret = "ok"
     /\ last.arg \in DOMAIN before
     /\ before[last.arg].clean)
    => \A t \in DOMAIN before[last.arg].players :
          /\ players[t].current_elo = before[last.arg].players[t].current_elo
          /\ players[t].races_played = before[last.arg].players[t].races_played

\* C4: whole-match reversal: create_match, then only add_race_to_match on that
\* match, then delete_match: every participant's current_elo equals its value
\* at create_match and the match record is gone.
C4_MatchReversal ==
    (/\ last.op = "delete_match"
     /\ last.ret = "ok"
     /\ last.arg \in DOMAIN snapshot
     /\ snapshot[last.arg].clean)
    => /\ last.arg \notin DOMAIN matches
       /\ \A i \in DOMAIN snapshot[last.arg].participants :
            LET t == snapshot[last.arg].participants[i]
            IN t \in DOMAIN snapshot[last.arg].players
               => players[t].current_elo = snapshot[last.arg].players[t].current_elo

\* C5: every player record has league = get_league(current_elo).
C5_LeagueOfRating ==
    \A t \in DOMAIN players :
        players[t].league = get_league(players[t].current_elo * Scale)

\* C6: each player's races_played equals the number of race results applied
\* to that player and not reverted.
C6_RacesPlayedCount ==
    \A t \in DOMAIN players : players[t].races_played = applied[t]

\* The race record written by the step just taken, when that step processed a
\* race into the races ledger.
Processed ==
    /\ ops' = ops + 1
    /\ last'.op \in {"add_race", "complete_scheduled_race"}
    /\ last'.ret = "ok"

Orders(n) == {f \in [1..n -> 1..n] : \A i, j \in 1..n : f[i] = f[j] => i = j}

\* The race just processed, processed again from the same store in every
\* order of its result pairs.
C7_Permuted ==
    Processed =>
        LET race == races'[last'.arg]
        IN \A f \in Orders(Len(race.results)) :
              LET out == process_race_results(players,
                                              [i \in 1..Len(race.results) |-> race.results[f[i]]],
                                              race.is_match)
              IN /\ ~out.raised
                 /\ out.elo_changes = race.elo_changes
                 /\ out.players = players'

\* C7: order independence: processing any permutation of the same
\* (identifier, position) pairs yields the same delta map and the same player
\* records.
C7_OrderIndependence == [][C7_Permuted]_vars

\* The race just processed against the same race with each DNF replaced by
\* the rank D.
C8_DnfAsLast ==
    Processed =>
        LET race == races'[last'.arg]
            D == Cardinality({i \in 1..Len(race.results) : race.results[i][1] \in DOMAIN players})
            ranked == [i \in 1..Len(race.results) |->
                          IF race.results[i][2] = DNF
                          THEN <<race.results[i][1], D>>
                          ELSE race.results[i]]
        IN race.elo_changes = process_race_results(players, ranked, race.is_match).elo_changes

\* C8: every DNF entrant is rated at position D, the number of result pairs
\* whose identifier is in the player store: the delta map is the one obtained
\* when each DNF is replaced by the rank D.
C8_DnfEffectivePosition == [][C8_DnfAsLast]_vars

\* A step of add_player on an identifier that is present.
C9_Duplicate ==
    (/\ ops' = ops + 1
     /\ last'.op = "add_player"
     /\ last'.arg \in DOMAIN players)
    => (last'.ret # "ok" /\ players' = players)

\* C9: add_player on an identifier already present fails and leaves the
\* existing record unchanged.
C9_DuplicateIdentifier == [][C9_Duplicate]_vars

\* A step that created a record, against the identifiers issued before it.
C10_Fresh ==
    (ops' = ops + 1 /\ last'.ret = "ok")
    => /\ last'.op \in {"add_race", "complete_scheduled_race"} => last'.arg \notin issued.races
       /\ last'.op = "create_match" => last'.arg \notin issued.matches
       /\ last'.op = "create_scheduled_race" => last'.arg \notin issued.scheduled

\* C10: an identifier generated for a new race, match or scheduled race was
\* never issued before in the same collection.
C10_IdentifierUniqueness == [][C10_Fresh]_vars

\* A step in which process_race_results ran on the results list request':
\* add_race past its sort, add_race_to_match on a match in progress,
\* complete_scheduled_race on a scheduled race.
Ran ==
    /\ ops' = ops + 1
    /\ last'.op \in {"add_race", "add_race_to_match", "complete_scheduled_race"}
    /\ last'.ret # "false"
    /\ ~(last'.op = "add_race" /\ SortRaises(request'))

\* The delta map stored by a successful step of race processing.
StoredChanges ==
    IF last'.op = "add_race_to_match"
    THEN matches'[last'.arg].races[matches[last'.arg].current_race].elo_changes
    ELSE races'[last'.arg].elo_changes

KnownPairs(race_results, pl) == {i \in 1..Len(race_results) : race_results[i][1] \in DOMAIN pl}

KnownTags(race_results, pl) == {race_results[i][1] : i \in KnownPairs(race_results, pl)}

Mixed(race_results, pl) ==
    /\ KnownPairs(race_results, pl) # {}
    /\ KnownPairs(race_results, pl) # 1..Len(race_results)

C11_Mixed ==
    (/\ Ran
     /\ Mixed(request', players)
     /\ Cardinality(KnownPairs(request', players)) >= 2)
    => /\ last'.ret = "ok"
       /\ DOMAIN StoredChanges = KnownTags(request', players)
       /\ DOMAIN players' = DOMAIN players
       /\ \A t \in KnownTags(request', players) :
             /\ players'[t].current_elo
                  = Round(players[t].current_elo * Scale + StoredChanges[t], Scale)
             /\ players'[t].races_played = players[t].races_played + 1

\* C11: unknown identifiers are soft: on a results list that mixes present
\* and absent identifiers (and resolves to at least two entrants, fewer being
\* the insufficient field of C12) race processing does not fail, the delta
\* map holds exactly the present identifiers, no record is created, and each
\* present entrant has its rating updated and races_played incremented by 1.
C11_UnknownIdentifiersSoft == [][C11_Mixed]_vars

\* A step of an operation that was handed a results list.
Submitted ==
    /\ ops' = ops + 1
    /\ last'.op \in {"add_race", "add_race_to_match", "complete_scheduled_race"}

C12_Insufficient ==
    (Submitted /\ Cardinality(KnownPairs(request', players)) < 2)
    => /\ last'.ret # "ok"
       /\ UNCHANGED <<players, races, scheduled_races, matches>>

\* C12: a race whose results resolve to fewer than 2 known entrants is
\* rejected and leaves players, races, matches and scheduled races unchanged.
C12_InsufficientField == [][C12_Insufficient]_vars

\* A stored player is named by more than one pair of the results list.
HasDuplicate(race_results, pl) ==
    \E i, j \in KnownPairs(race_results, pl) : i # j /\ race_results[i][1] = race_results[j][1]

C13_Duplicate ==
    (Submitted /\ HasDuplicate(request', players))
    => /\ last'.ret # "ok"
       /\ players' = players

\* C13: a results list naming the same player identifier more than once is
\* rejected by race processing and changes no player's rating, league or
\* races_played.
C13_DuplicateEntrant == [][C13_Duplicate]_vars

\* C14: create_match with an empty participant list fails and adds no match
\* record: every stored match has a non-empty participant list.
C14_EmptyParticipants ==
    \A m \in DOMAIN matches : matches[m].participants # <<>>

C15_FlushFailed ==
    (ops' = ops + 1 /\ last'.ret = "io_error")
    => UNCHANGED <<players, races, scheduled_races, matches>>

\* C15: when the persistence flush of a mutating operation fails, the
\* in-memory players, races, scheduled races and matches are what they were
\* before the operation started.
C15_FlushAtomicity == [][C15_FlushFailed]_vars

\* The ranked match races stored with exactly two entrants, first and second.
Duels ==
    {r \in DOMAIN races :
        /\ races[r].is_match
        /\ Len(races[r].results) = 2
        /\ races[r].results[1][1] # races[r].results[2][1]
        /\ races[r].results[1][2] = 1
        /\ races[r].results[2][2] = 2}

WinnerDelta(r) == races[r].elo_changes[races[r].results[1][1]]

LoserDelta(r) == races[r].elo_changes[races[r].results[2][1]]

Abs(x) == IF x >= 0 THEN x ELSE -x

\* C16 as stated: in a ranked match race with exactly two entrants the
\* winner's delta is positive, the loser's delta is negative and the two
\* deltas sum to zero.
C16_TwoEntrantZeroSum ==
    \A r \in Duels :
        /\ WinnerDelta(r) > 0
        /\ LoserDelta(r) < 0
        /\ Abs(WinnerDelta(r) + LoserDelta(r)) <= DuelTolerance

\* C16 as amended: in a ranked match race with exactly two entrants the
\* winner's delta is positive, the loser's delta is negative and the two
\* deltas sum to K_matches * M_matches = 32 rating points.
C16_TwoEntrantSum ==
    \A r \in Duels :
        /\ WinnerDelta(r) > 0
        /\ LoserDelta(r) < 0
        /\ Abs(WinnerDelta(r) + LoserDelta(r) - K_matches * M_matches * Scale) <= DuelTolerance

C16_Witness ==
    \E r \in Duels :
        /\ r \in DOMAIN before
        /\ before[r].players[races[r].results[1][1]].current_elo = 2000
        /\ before[r].players[races[r].results[2][1]].current_elo = 1800
        /\ players[races[r].results[1][1]].current_elo > 2000
        /\ players[races[r].results[2][1]].current_elo < 1800

C17_Completes ==
    (ops' = ops + 1 /\ last'.op = "complete_scheduled_race")
    => /\ last'.ret = "raised" => Cardinality(KnownPairs(request', players)) < 2
       /\ last'.ret = "ok" =>
            \E race_id \in DOMAIN scheduled_races :
                LET scheduled_race == scheduled_races[race_id]
                    out == process_race_results(players, request', scheduled_race.is_match)
                IN /\ players' = out.players
                   /\ scheduled_races' = Remove(scheduled_races, race_id)
                   /\ last'.arg \notin DOMAIN races
                   /\ races' = (last'.arg :> RaceRecord(request', out.elo_changes,
                                                        scheduled_race.is_match,
                                                        scheduled_race.scheduled_date)) @@ races

\* C17: complete_scheduled_race on a scheduled race applies the results once
\* with the entry's stored is_match flag, adds exactly one race record with
\* the entry's scheduled_date and the delta map produced, and removes the
\* entry from the scheduled races.
C17_CompleteScheduledOnce == [][C17_Completes]_vars

\* C18: get_league is the step function with inclusive lower bounds: a
\* rating of 3000 or more is 'Master', one from 1701 up to but not including
\* 3000 is 'Champion', one below 1701 is 'Academy'.
C18_LeagueBoundaries ==
    last.op = "get_league" =>
        /\ last.arg >= 3000 * Scale => last.ret = "Master"
        /\ (1701 * Scale <= last.arg /\ last.arg < 3000 * Scale) => last.ret = "Champion"
        /\ last.arg < 1701 * Scale => last.ret = "Academy"
        /\ last.arg = 1700 * Scale => last.ret = "Academy"
        /\ last.arg = 1701 * Scale => last.ret = "Champion"
        /\ last.arg = 2999 * Scale => last.ret = "Champion"
        /\ last.arg = 3000 * Scale => last.ret = "Master"

C18_Witness == last = Outcome("get_league", 1701 * Scale, "Champion")

C19_Rank ==
    (ops' = ops + 1 /\ last'.op = "world_rank_to_elo")
    => /\ last'.ret \in 800..4500
       /\ last'.arg = 1 => last'.ret = 4500
       /\ last'.arg >= 100000 => last'.ret = 800
       /\ (last.op = "world_rank_to_elo" /\ last.arg < last'.arg) => last.ret >= last'.ret
       /\ (last.op = "world_rank_to_elo" /\ last.arg > last'.arg) => last.ret <= last'.ret

\* C19: world_rank_to_elo is monotonically non-increasing in the rank, gives
\* 4500 for rank 1, an integer in [800, 4500] for every positive rank and 800
\* for every rank of 100000 or more.
C19_RankToEloMonotone == [][C19_Rank]_vars

C19_Witness ==
    /\ ops = 2
    /\ last = Outcome("world_rank_to_elo", 100001, 800)

C20_Rank ==
    (ops' = ops + 1 /\ last'.op = "add_player")
    => /\ last'.ret # "raised" => players'[last'.arg].world_rank > 0
       /\ last'.ret = "raised" => (players' = players /\ players_file' = players_file)

\* C20: add_player with a world rank of 0 or less fails, creates or modifies
\* no player record and writes nothing to players.json: a call that does not
\* fail has stored a positive rank, a call that fails has changed nothing.
C20_InvalidRank == [][C20_Rank]_vars

C20_Witness ==
    /\ last.op = "add_player"
    /\ last.ret = "raised"
    /\ last.arg \in DOMAIN players
    /\ \E t \in Tags : t \notin DOMAIN players

\* The call of this step is one the operation rejects: an unknown or a
\* completed match for add_race_to_match, an unknown identifier for
\* delete_match and delete_race, the early return of complete_scheduled_race.
C21_Rejected ==
    /\ ops' = ops + 1
    /\ \/ /\ last'.op = "add_race_to_match"
          /\ \/ last'.arg \notin DOMAIN matches
             \/ /\ last'.arg \in DOMAIN matches
                /\ matches[last'.arg].status = "completed"
       \/ last'.op = "delete_match" /\ last'.arg \notin DOMAIN matches
       \/ last'.op = "delete_race" /\ last'.arg \notin DOMAIN races
       \/ last'.op = "complete_scheduled_race" /\ last'.ret = "false"

C21_NoEffect ==
    C21_Rejected
    => /\ last'.ret = "false"
       /\ UNCHANGED <<players, races, scheduled_races, matches>>

\* C21: add_race_to_match on an unknown or a completed match, delete_match
\* and delete_race on an unknown identifier and complete_scheduled_race on an
\* unknown scheduled identifier return without effect: players, races,
\* scheduled races and matches are what they were before the call.
C21_RejectedNoEffect == [][C21_NoEffect]_vars

C21_Witness ==
    /\ last = Outcome("add_race_to_match", 1, "false")
    /\ 1 \in DOMAIN matches
    /\ matches[1].status = "completed"
    /\ matches[1].current_race = ScrimmageRaces + 1
    /\ applied[1] = ScrimmageRaces

\* The tags of a participant list or of a results list.
ListedIn(race_results) == {race_results[i][1] : i \in DOMAIN race_results}
ParticipantSet(participants) == {participants[i] : i \in DOMAIN participants}

\* A sub-race accepted by a match with a participant list, from results that
\* name stored players only, each once.
C22_Accepted ==
    /\ ops' = ops + 1
    /\ last'.op = "add_race_to_match"
    /\ last'.ret = "ok"
    /\ matches[last'.arg].participants # <<>>
    /\ ListedIn(request') \subseteq DOMAIN players
    /\ ~HasDuplicate(request', players)

C22_Frame ==
    C22_Accepted
    => \A t \in DOMAIN players :
          players'[t] # players[t]
          => /\ t \in ParticipantSet(matches[last'.arg].participants)
             /\ t \in ListedIn(request')

\* C22: add_race_to_match changes the record (rating, league, races_played)
\* only of players of the match's stored participant list who are listed in
\* the submitted results; every other player's record is left as it was.
C22_ParticipantsOnly == [][C22_Frame]_vars

\* C23: in every reachable state every player's races_played is >= 0, in the
\* store of RaceManager, in the store of the menu's PlayerManager and in
\* players.json.
C23_RacesPlayedNonNegative ==
    /\ \A t \in DOMAIN players : players[t].races_played >= 0
    /\ \A t \in DOMAIN pm_players : pm_players[t].races_played >= 0
    /\ \A t \in DOMAIN players_file : players_file[t].races_played >= 0

\* C24: players.json holds every player ever added through either store, and
\* holds for every player of the RaceManager store the record that store
\* has (the rating, league and races_played left by the races applied and
\* not reverted), with races_played the number of those races.
C24_NoLostUpdate ==
    /\ \A t \in DOMAIN pm_players \cup DOMAIN players : t \in DOMAIN players_file
    /\ \A t \in DOMAIN players \cap DOMAIN players_file :
          /\ players_file[t] = players[t]
          /\ players_file[t].races_played = applied[t]

\* The number of delta maps naming player t that are held by a live race
\* record or by a sub-race of a live match.
HeldBy(t) ==
    Cardinality({id \in DOMAIN races : t \in DOMAIN races[id].elo_changes})
    + Cardinality({mk \in UNION {{<<m, k>> : k \in DOMAIN matches[m].races} : m \in DOMAIN matches} :
                      t \in DOMAIN matches[mk[1]].races[mk[2]].elo_changes})

\* C25: every delta map that was applied to the player records and has not
\* been reverted is held by a live race record or a live match sub-race: for
\* every player the number of applied, unreverted delta maps naming the
\* player is the number of such maps held.
C25_RevertibilityConserved ==
    \A t \in DOMAIN applied : applied[t] = HeldBy(t)

C26_Keys ==
    \A m \in DOMAIN matches :
        LET match_data == matches[m]
        IN /\ DOMAIN match_data.races = 1..(match_data.current_race - 1)
           /\ Cardinality(DOMAIN match_data.races) = match_data.current_race - 1
           /\ match_data.current_race - 1 <= match_data.num_races

C26_Kept ==
    (ops' = ops + 1 /\ last'.op = "add_race_to_match" /\ last'.arg \in DOMAIN matches)
    => /\ last'.arg \in DOMAIN matches'
       /\ \A k \in DOMAIN matches[last'.arg].races :
             /\ k \in DOMAIN matches'[last'.arg].races
             /\ matches'[last'.arg].races[k] = matches[last'.arg].races[k]

\* C26: in every reachable state the sub-race map of every stored match
\* holds exactly the keys race_1 .. race_(current_race - 1), so it has
\* current_race - 1 entries, at most num_races; and a submission to a match
\* leaves every sub-race the match already held as it was.
C26_SubRaceKeys == []C26_Keys /\ [][C26_Kept]_vars

C26_Witness ==
    /\ last = Outcome("add_race_to_match", 1, "ok")
    /\ 1 \in DOMAIN matches
    /\ DOMAIN matches[1].races = 1..ScrimmageRaces
    /\ matches[1].current_race = matches[1].num_races + 1
    /\ matches[1].races[1] # matches[1].races[ScrimmageRaces]

====
